---- MODULE Spec2Model ----
(***************************************************************************)
(* Model of plugo's load_plugins (src/plugo/services/plugin_manager.py):   *)
(* policy construction from the configuration file and ENABLED_PLUGINS,    *)
(* catalog construction from the plugin directory, the depth-first         *)
(* dependency resolution (visit), the activation loop and the final        *)
(* report.                                                                 *)
(***************************************************************************)
EXTENDS Integers, Sequences, FiniteSets, TLC

VARIABLES
    pc,                        \* position of load_plugins
    cfgLeft,                   \* configuration entries not yet processed
    last_flag,                 \* name -> "enabled" flag of its last entry
    enabled_plugins,
    disabled_plugins,
    env_plugin_list,           \* names parsed from ENABLED_PLUGINS
    all_plugins_in_directory,
    plugin_info,               \* name -> [dependencies, is_loaded, module]
    seeds,                     \* list(enabled_plugins), the iteration order
    seedIdx,                   \* next position of the seeding loop
    stack,                     \* chain of nested visit calls: [name, i]
    visited,
    temp_marks,
    loading_order,
    error,                     \* the exception raised by visit, if any
    attempts,                  \* names whose activation was attempted, in order
    init_returned,             \* names whose init_plugin was called and returned
    not_loaded_report,         \* name -> branch taken by the final report
    loaded_plugins,            \* the set built at the end of the run
    returned                   \* "pending", "None" or "set"

vars == <<pc, cfgLeft, last_flag, enabled_plugins, disabled_plugins,
          env_plugin_list, all_plugins_in_directory, plugin_info, seeds,
          seedIdx, stack, visited, temp_marks, loading_order, error,
          attempts, init_returned, not_loaded_report, loaded_plugins,
          returned>>

policyVars == <<cfgLeft, last_flag, enabled_plugins, disabled_plugins,
                env_plugin_list>>
catalogVars == <<all_plugins_in_directory, plugin_info>>
resolveVars == <<seeds, seedIdx, stack, visited, temp_marks, loading_order,
                 error>>
activateVars == <<attempts, init_returned>>
reportVars == <<not_loaded_report, loaded_plugins, returned>>

----------------------------------------------------------------------------
(* Bounds of the model *)

MaxCfg == 2     \* entries of the "plugins" list of the configuration file
MaxEnv == 1     \* comma-separated tokens of ENABLED_PLUGINS
MaxDeps == 2    \* length of a plugin's dependency list

Names == {"A", "B", "C"}

----------------------------------------------------------------------------
(* Helpers *)

Range(s) == {s[k] : k \in 1..Len(s)}

SeqsUpTo(S, n) == UNION {[1..k -> S] : k \in 0..n}

\* The orders in which iterating a Python set can yield its elements.
Perms(S) == {s \in [1..Cardinality(S) -> S] :
                \A a, b \in 1..Cardinality(S) : s[a] = s[b] => a = b}

NoError == [kind |-> "none", name |-> ""]

\* A token of ENABLED_PLUGINS between two commas: a name or nothing,
\* possibly surrounded by blanks.
Tokens == [text : Names \cup {""}, blanks : BOOLEAN]

\* plugin.strip()
Strip(t) == t.text

\* [plugin.strip() for plugin in env_plugins.split(",") if plugin.strip()]
RECURSIVE ParseEnv(_)
ParseEnv(toks) ==
    IF toks = <<>> THEN <<>>
    ELSE IF Strip(Head(toks)) # ""
         THEN <<Strip(Head(toks))>> \o ParseEnv(Tail(toks))
         ELSE ParseEnv(Tail(toks))

\* The dependency lists of the model name no plugin twice: visit returns at
\* once on a name it has done, so a repeated name changes nothing.
DepLists == {d \in SeqsUpTo(Names, MaxDeps) :
                \A a, b \in 1..Len(d) : d[a] = d[b] => a = b}

----------------------------------------------------------------------------
(* State after the function's prologue: the configuration file is read,    *)
(* none of its entries is processed yet                                    *)

Init ==
    /\ pc = "config"
    /\ cfgLeft \in 0..MaxCfg
    /\ last_flag = [n \in Names |-> "none"]
    /\ enabled_plugins = {}
    /\ disabled_plugins = {}
    /\ env_plugin_list = <<>>
    /\ all_plugins_in_directory = {}
    /\ plugin_info = <<>>
    /\ seeds = <<>>
    /\ seedIdx = 1
    /\ stack = <<>>
    /\ visited = {}
    /\ temp_marks = {}
    /\ loading_order = <<>>
    /\ error = NoError
    /\ attempts = <<>>
    /\ init_returned = {}
    /\ not_loaded_report = [n \in Names |-> "none"]
    /\ loaded_plugins = {}
    /\ returned = "pending"

----------------------------------------------------------------------------
(* Policy construction *)

\* if enabled: enabled_plugins.add(name) else: disabled_plugins.add(name)
EnabledAfterEntry(name, flag) ==
    IF flag THEN enabled_plugins \cup {name} ELSE enabled_plugins

DisabledAfterEntry(name, flag) ==
    IF flag THEN disabled_plugins ELSE disabled_plugins \cup {name}

\* One iteration of the loop over config_data["plugins"].
ReadConfigEntry ==
    /\ pc = "config"
    /\ cfgLeft > 0
    /\ \E name \in Names, flag \in BOOLEAN :
          /\ enabled_plugins' = EnabledAfterEntry(name, flag)
          /\ disabled_plugins' = DisabledAfterEntry(name, flag)
          /\ last_flag' = [last_flag EXCEPT ![name] =
                              IF flag THEN "true" ELSE "false"]
    /\ cfgLeft' = cfgLeft - 1
    /\ UNCHANGED <<pc, env_plugin_list>>
    /\ UNCHANGED <<catalogVars, resolveVars, activateVars, reportVars>>

\* Mutant: a non-empty override replaces the enabled set.
EnabledReplaced(list) ==
    IF list = <<>> THEN enabled_plugins ELSE Range(list)

\* enabled_plugins.update(env_plugin_list)
EnabledAfterOverride(list) == enabled_plugins \cup Range(list)

\* Mutant: the override leaves the disabled set alone.
DisabledKept(list) == disabled_plugins

\* disabled_plugins.difference_update(env_plugin_list)
DisabledAfterOverride(list) == disabled_plugins \ Range(list)

\* The end of the configuration loop and the ENABLED_PLUGINS override.
ApplyOverride ==
    /\ pc = "config"
    /\ cfgLeft = 0
    /\ \E toks \in SeqsUpTo(Tokens, MaxEnv) :
          /\ env_plugin_list' = ParseEnv(toks)
          /\ enabled_plugins' = EnabledAfterOverride(ParseEnv(toks))
          /\ disabled_plugins' = DisabledAfterOverride(ParseEnv(toks))
    /\ pc' = "catalog"
    /\ last_flag' = [n \in Names |-> "none"]     \* the loop is over
    /\ UNCHANGED cfgLeft
    /\ UNCHANGED <<catalogVars, resolveVars, activateVars, reportVars>>

----------------------------------------------------------------------------
(* Catalog construction *)

\* plugin_info[plugin_name] = {"path", "dependencies", "metadata",
\*                             "is_loaded": False, "module": None}
Descriptor(deps) ==
    [dependencies |-> deps, is_loaded |-> FALSE, module |-> "None"]

\* pc once the seeding loop has nothing left to do
PcAfterResolve(list, idx, stk) ==
    IF idx > Len(list) /\ stk = <<>> THEN "activate" ELSE "resolve"

\* Mutant: every name is a seed, enabled or not.
SeedNamesAll == Names

\* The names the seeding loop iterates over: list(enabled_plugins)
SeedNames == enabled_plugins

\* The scan of the plugin directory: dirs are its sub-directories, good the
\* ones with metadata.json and plugin.py whose "dependencies" is a list.
\* Ends with the empty resolution state and list(enabled_plugins).
BuildCatalog ==
    /\ pc = "catalog"
    /\ \E dirs \in SUBSET Names :
         \E good \in SUBSET dirs :
           \E deps \in [good -> DepLists] :
              /\ all_plugins_in_directory' = dirs
              /\ plugin_info' = [n \in good |-> Descriptor(deps[n])]
    /\ \E list \in Perms(SeedNames) :
          /\ seeds' = list
          /\ pc' = PcAfterResolve(list, 1, <<>>)
    /\ seedIdx' = 1
    /\ loading_order' = <<>>
    /\ visited' = {}
    /\ temp_marks' = {}
    /\ stack' = <<>>
    \* env_plugin_list is not read again: the model drops it
    /\ env_plugin_list' = <<>>
    /\ UNCHANGED <<cfgLeft, last_flag, enabled_plugins, disabled_plugins>>
    /\ UNCHANGED <<error, activateVars, reportVars>>

----------------------------------------------------------------------------
(* Dependency resolution *)

\* Mutant: the failure is logged and the run goes on to the activation.
RaiseWithoutReturn(kind, name) ==
    /\ error' = [kind |-> kind, name |-> name]
    /\ stack' = <<>>
    /\ pc' = "activate"
    /\ UNCHANGED returned

\* raise Exception(...) inside visit, caught at "except Exception as e":
\* load_plugins logs the failure and returns None.
Raise(kind, name) ==
    /\ error' = [kind |-> kind, name |-> name]
    /\ stack' = <<>>
    /\ pc' = "done"
    /\ returned' = "None"

\* Mutant: the disabled set is tested before the catalog.
VisitCheckDisabledFirst(plugin_name) ==
    IF plugin_name \in disabled_plugins THEN "RequiredButDisabled"
    ELSE IF plugin_name \notin DOMAIN plugin_info THEN "UnknownPlugin"
    ELSE "ok"

\* Mutant: the disabled set is not tested.
VisitCheckCatalogOnly(plugin_name) ==
    IF plugin_name \notin DOMAIN plugin_info THEN "UnknownPlugin" ELSE "ok"

\* The checks visit makes on a name it has just marked in progress.
VisitCheck(plugin_name) ==
    IF plugin_name \notin DOMAIN plugin_info THEN "UnknownPlugin"
    ELSE IF plugin_name \in disabled_plugins THEN "RequiredButDisabled"
    ELSE "ok"

\* visit on a name that is not done: mark it in progress, check it, and
\* start on its dependencies.
VisitNew(plugin_name, callers) ==
    /\ temp_marks' = temp_marks \cup {plugin_name}
    /\ IF VisitCheck(plugin_name) # "ok"
       THEN Raise(VisitCheck(plugin_name), plugin_name)
       ELSE /\ stack' = Append(callers, [name |-> plugin_name, i |-> 1])
            /\ pc' = "resolve"
            /\ UNCHANGED <<error, returned>>

\* visit on a name that is done: it returns at once.
VisitSkip(callers, idx) ==
    /\ stack' = callers
    /\ pc' = PcAfterResolve(seeds, idx, callers)
    /\ UNCHANGED <<temp_marks, error, returned>>

\* Mutant: a name in progress is treated like a name that is done.
VisitIgnoringInProgress(plugin_name, callers, idx) ==
    IF plugin_name \notin visited /\ plugin_name \notin temp_marks
    THEN VisitNew(plugin_name, callers)
    ELSE VisitSkip(callers, idx)

\* Mutant: a name in progress is visited again.
VisitWithoutCycleCheck(plugin_name, callers, idx) ==
    IF plugin_name \notin visited
    THEN VisitNew(plugin_name, callers)
    ELSE VisitSkip(callers, idx)

\* A call visit(plugin_name) up to its first nested call; callers is the
\* chain of calls it is made from, idx the seeding position to go on from.
Visit(plugin_name, callers, idx) ==
    IF plugin_name \in temp_marks
    THEN /\ Raise("CircularDependency", plugin_name)
         /\ UNCHANGED temp_marks
    ELSE IF plugin_name \notin visited
    THEN VisitNew(plugin_name, callers)
    ELSE VisitSkip(callers, idx)

\* One iteration of "for plugin_name in list(enabled_plugins)".
SeedStep ==
    /\ pc = "resolve"
    /\ stack = <<>>
    /\ seedIdx <= Len(seeds)
    /\ seedIdx' = seedIdx + 1
    /\ IF seeds[seedIdx] \notin DOMAIN plugin_info
       THEN \* logged as "specified as enabled but not found"; continue
            /\ pc' = PcAfterResolve(seeds, seedIdx + 1, <<>>)
            /\ UNCHANGED <<stack, temp_marks, error, returned>>
       ELSE IF seeds[seedIdx] \notin visited
       THEN Visit(seeds[seedIdx], <<>>, seedIdx + 1)
       ELSE /\ pc' = PcAfterResolve(seeds, seedIdx + 1, <<>>)
            /\ UNCHANGED <<stack, temp_marks, error, returned>>
    /\ UNCHANGED <<seeds, visited, loading_order>>
    /\ UNCHANGED <<policyVars, catalogVars, activateVars>>
    /\ UNCHANGED <<not_loaded_report, loaded_plugins>>

Top == stack[Len(stack)]

\* Mutant: only the first dependency is followed.
TopDepsFirstOnly ==
    SubSeq(plugin_info[Top.name].dependencies, 1,
           IF Len(plugin_info[Top.name].dependencies) > 0 THEN 1 ELSE 0)

\* plugin["dependencies"] of the innermost visit call
TopDeps == plugin_info[Top.name].dependencies

\* One iteration of "for dep in plugin['dependencies']: visit(dep)".
VisitDep ==
    /\ pc = "resolve"
    /\ stack # <<>>
    /\ Top.i <= Len(TopDeps)
    /\ Visit(TopDeps[Top.i],
             [stack EXCEPT ![Len(stack)].i = Top.i + 1], seedIdx)
    /\ UNCHANGED <<seeds, seedIdx, visited, loading_order>>
    /\ UNCHANGED <<policyVars, catalogVars, activateVars>>
    /\ UNCHANGED <<not_loaded_report, loaded_plugins>>

\* Mutant: the name is put in front of the order.
OrderPrepended(plugin_name) == <<plugin_name>> \o loading_order

\* loading_order.append(plugin_name)
OrderAfterDone(plugin_name) == Append(loading_order, plugin_name)

\* Mutant: the name stays marked in progress when it is done.
TempMarksKept(plugin_name) == temp_marks

\* temp_marks.pop(plugin_name, None)
TempMarksAfterDone(plugin_name) == temp_marks \ {plugin_name}

\* The end of visit: the dependencies are done.
VisitDone ==
    /\ pc = "resolve"
    /\ stack # <<>>
    /\ Top.i > Len(TopDeps)
    /\ visited' = visited \cup {Top.name}
    /\ temp_marks' = TempMarksAfterDone(Top.name)
    /\ loading_order' = OrderAfterDone(Top.name)
    /\ stack' = SubSeq(stack, 1, Len(stack) - 1)
    /\ pc' = PcAfterResolve(seeds, seedIdx, SubSeq(stack, 1, Len(stack) - 1))
    /\ UNCHANGED <<seeds, seedIdx, error>>
    /\ UNCHANGED <<policyVars, catalogVars, activateVars, reportVars>>

----------------------------------------------------------------------------
(* Activation *)

\* What materializing and initializing a plugin can do.
Activations == {"ok", "exec_raises", "no_init_plugin", "init_raises"}

\* Mutant: the plugin is marked loaded before init_plugin is called.
DescriptorMarkedBeforeInit(plugin, act) ==
    IF act \in {"ok", "init_raises"}
    THEN [plugin EXCEPT !.is_loaded = TRUE, !.module = "module"]
    ELSE plugin

\* plugin["is_loaded"] = True; plugin["module"] = plugin_module
\* (reached only when init_plugin exists and returned)
DescriptorAfter(plugin, act) ==
    IF act = "ok"
    THEN [plugin EXCEPT !.is_loaded = TRUE, !.module = "module"]
    ELSE plugin

\* Mutant: an exception of the plugin leaves the loop.
ContinuesUnlessRaised(act) == act \in {"ok", "no_init_plugin"}

\* Whether the loop goes on after an activation: "except Exception" catches
\* what the module or init_plugin raises.
ContinuesAfter(act) == TRUE

\* Mutant: the order is walked from its end.
NextFromEnd == loading_order[Len(loading_order) - Len(attempts)]

\* The name the activation loop is at.
NextToActivate == loading_order[Len(attempts) + 1]

\* One iteration of "for plugin_name in loading_order".
ActivateStep ==
    /\ pc = "activate"
    /\ Len(attempts) < Len(loading_order)
    /\ LET plugin_name == NextToActivate IN
         IF plugin_name \notin DOMAIN plugin_info
         THEN \* plugin_info[plugin_name] raises KeyError out of load_plugins
              /\ returned' = "KeyError"
              /\ pc' = "done"
              /\ UNCHANGED <<plugin_info, attempts, init_returned>>
         ELSE \E act \in Activations :
                /\ attempts' = Append(attempts, plugin_name)
                /\ init_returned' = IF act = "ok"
                                        THEN init_returned \cup {plugin_name}
                                        ELSE init_returned
                /\ plugin_info' =
                     [plugin_info EXCEPT ![plugin_name] =
                         DescriptorAfter(plugin_info[plugin_name], act)]
                /\ pc' = IF ContinuesAfter(act) THEN "activate" ELSE "done"
                /\ returned' = IF ContinuesAfter(act)
                                  THEN returned ELSE "Exception"
    /\ UNCHANGED <<all_plugins_in_directory, policyVars, resolveVars>>
    /\ UNCHANGED <<not_loaded_report, loaded_plugins>>

----------------------------------------------------------------------------
(* Final report and return *)

\* loaded_plugins = set(loading_order)
LoadedPlugins == Range(loading_order)

\* Mutant: the enabled set is tested before the disabled set.
ReportBranchEnabledFirst(plugin_name) ==
    IF plugin_name \notin enabled_plugins
       /\ plugin_name \in DOMAIN plugin_info THEN "not_enabled"
    ELSE IF plugin_name \in disabled_plugins THEN "disabled"
    ELSE "unknown_reasons"

\* The branch the report takes for a directory that is not in the order.
ReportBranch(plugin_name) ==
    IF plugin_name \in disabled_plugins THEN "disabled"
    ELSE IF plugin_name \notin enabled_plugins
            /\ plugin_name \in DOMAIN plugin_info THEN "not_enabled"
    ELSE "unknown_reasons"

\* Mutant: an empty set is returned as None ("return loaded_plugins or None").
ReturnNoneIfEmpty == IF LoadedPlugins = {} THEN "None" ELSE "set"

\* return loaded_plugins
ReturnValue == "set"

\* The code after the activation loop.
Report ==
    /\ pc = "activate"
    /\ Len(attempts) = Len(loading_order)
    /\ loaded_plugins' = LoadedPlugins
    /\ not_loaded_report' =
          [n \in Names |->
              IF n \in all_plugins_in_directory \ LoadedPlugins
              THEN ReportBranch(n) ELSE "none"]
    /\ returned' = ReturnValue
    /\ pc' = "done"
    /\ UNCHANGED <<policyVars, catalogVars, resolveVars, activateVars>>

----------------------------------------------------------------------------

Next ==
    \/ ReadConfigEntry
    \/ ApplyOverride
    \/ BuildCatalog
    \/ SeedStep
    \/ VisitDep
    \/ VisitDone
    \/ ActivateStep
    \/ Report

Spec == Init /\ [][Next]_vars

----------------------------------------------------------------------------
(* The resolution as a function of its inputs: the catalog cat, the disabled *)
(* set dis and the seeding order list. r is the resolution state            *)
(* [temp, done, order, err]; a raised exception ends every call.            *)

NoResolution == [temp |-> {}, done |-> {}, order |-> <<>>, err |-> NoError]

RECURSIVE VisitF(_, _, _, _), VisitDepsF(_, _, _, _)

\* for dep in plugin["dependencies"]: visit(dep)
VisitDepsF(deps, r, cat, dis) ==
    IF deps = <<>> \/ r.err # NoError THEN r
    ELSE VisitDepsF(Tail(deps), VisitF(Head(deps), r, cat, dis), cat, dis)

\* visit(plugin_name)
VisitF(plugin_name, r, cat, dis) ==
    IF plugin_name \in r.temp
    THEN [r EXCEPT !.err = [kind |-> "CircularDependency",
                            name |-> plugin_name]]
    ELSE IF plugin_name \in r.done THEN r
    ELSE LET marked == [r EXCEPT !.temp = @ \cup {plugin_name}] IN
         IF plugin_name \notin DOMAIN cat
         THEN [marked EXCEPT !.err = [kind |-> "UnknownPlugin",
                                      name |-> plugin_name]]
         ELSE IF plugin_name \in dis
         THEN [marked EXCEPT !.err = [kind |-> "RequiredButDisabled",
                                      name |-> plugin_name]]
         ELSE LET after == VisitDepsF(cat[plugin_name].dependencies,
                                      marked, cat, dis) IN
              IF after.err # NoError THEN after
              ELSE [after EXCEPT !.done = @ \cup {plugin_name},
                                 !.temp = @ \ {plugin_name},
                                 !.order = Append(@, plugin_name)]

\* for plugin_name in list(enabled_plugins): ... visit(plugin_name)
RECURSIVE SeedF(_, _, _, _)
SeedF(list, r, cat, dis) ==
    IF list = <<>> \/ r.err # NoError THEN r
    ELSE IF Head(list) \notin DOMAIN cat \/ Head(list) \in r.done
    THEN SeedF(Tail(list), r, cat, dis)
    ELSE SeedF(Tail(list), VisitF(Head(list), r, cat, dis), cat, dis)

\* What the resolution gives: the order, or the error that aborts the run.
Outcome(r) ==
    IF r.err # NoError THEN [order |-> <<>>, err |-> r.err]
    ELSE [order |-> r.order, err |-> NoError]

ResolveF(list, cat, dis) == Outcome(SeedF(list, NoResolution, cat, dis))

----------------------------------------------------------------------------
(* Vocabulary of the properties *)

Catalog == DOMAIN plugin_info

\* The declared dependencies of a name; a name without descriptor has none.
DepsOf(n) == IF n \in Catalog THEN Range(plugin_info[n].dependencies) ELSE {}

\* The names one dependency edge away from the set S, and S itself.
StepFrom(S) == S \cup UNION {DepsOf(n) : n \in S}

\* The names reachable from S through dependency edges (S included).
RECURSIVE ReachFrom(_)
ReachFrom(S) == IF StepFrom(S) = S THEN S ELSE ReachFrom(StepFrom(S))

\* The names reachable from n through at least one dependency edge.
Below(n) == ReachFrom(DepsOf(n))

\* The transitive dependency closure of the enabled set.
Closure == ReachFrom(enabled_plugins)

\* The closure of the enabled names that have a descriptor.
CatalogClosure == ReachFrom(enabled_plugins \cap Catalog)

\* The names reached from an enabled name through a dependency edge.
PulledIn == UNION {Below(n) : n \in enabled_plugins}

OnCycle(n) == n \in Below(n)

NoDuplicates(s) == \A a, b \in 1..Len(s) : s[a] = s[b] => a = b

IsPrefix(s, t) == Len(s) <= Len(t) /\ s = SubSeq(t, 1, Len(s))

IsLoaded(n) == n \in Catalog /\ plugin_info[n].is_loaded

Attempted(n) == n \in Range(attempts)

\* The resolution is over and raised nothing.
ResolutionSucceeded == pc \in {"activate", "done"} /\ error = NoError

ResolutionFailed == error # NoError

RunEnded == pc = "done"

----------------------------------------------------------------------------
(* The properties *)

\* C1: whenever resolution succeeds, every declared dependency of a plugin
\* of loading_order stands at a strictly earlier position than the plugin.
C1_DependenciesFirst ==
    ResolutionSucceeded =>
        (\A i \in 1..Len(loading_order) :
            \A D \in DepsOf(loading_order[i]) :
                \E j \in 1..(i - 1) : loading_order[j] = D)

\* A resolved order of three plugins, one of them with two dependencies.
C1_Witness ==
    /\ ResolutionSucceeded
    /\ Len(loading_order) = 3
    /\ \E i \in 1..Len(loading_order) :
          Cardinality(DepsOf(loading_order[i])) = 2

\* C2: after a run whose resolution succeeded, the returned set is exactly
\* the set of the plugins that are loaded (module executed, init_plugin
\* present and returned); a plugin whose activation failed is not in it.
C2_ReturnsLoadedOnly ==
    (returned = "set") => (loaded_plugins = {n \in Names : IsLoaded(n)})

\* The names the traversal can come to that have no descriptor: they are
\* reached through a dependency edge (a seed without descriptor is skipped).
MissingPulledIn == PulledIn \ Catalog

\* The names with a descriptor the traversal can come to that are disabled.
DisabledReached == CatalogClosure \cap Catalog \cap disabled_plugins

\* The names the traversal can come to that lie on a dependency cycle.
CyclesReached == {n \in CatalogClosure : OnCycle(n)}

C4_AsStated ==
    (RunEnded /\ \E n \in Closure : OnCycle(n))
        => (/\ error.kind = "CircularDependency"
            /\ OnCycle(error.name)
            /\ returned = "None")

\* C4, amended: a cycle in the graph reachable from the enabled set always
\* makes resolution fail and load_plugins return None, never an order; the
\* error is CircularDependency, naming a plugin on a cycle, when every
\* reachable name has a descriptor and none is disabled (otherwise it is the
\* resolution error the traversal meets first); CircularDependency always
\* names a reachable plugin that lies on a cycle.
C4_CycleAborts ==
    RunEnded =>
        (/\ (CyclesReached # {})
               => (ResolutionFailed /\ returned = "None")
         /\ (CyclesReached # {} /\ MissingPulledIn = {}
                /\ DisabledReached = {})
               => (error.kind = "CircularDependency")
         /\ (error.kind = "CircularDependency")
               => (error.name \in CyclesReached))

\* The scenario {A: [B], B: [A]}, enabled {A}: CircularDependency naming A
\* or B, and nothing loaded.
C4_Witness ==
    /\ RunEnded
    /\ enabled_plugins = {"A"}
    /\ Catalog = {"A", "B"}
    /\ plugin_info["A"].dependencies = <<"B">>
    /\ plugin_info["B"].dependencies = <<"A">>
    /\ error.kind = "CircularDependency"
    /\ error.name \in {"A", "B"}
    /\ returned = "None"
    /\ loaded_plugins = {}

\* C5 as stated: every name of the closure of the enabled set that is in
\* the disabled set makes resolution fail with RequiredButDisabled for that
\* name.
C5_AsStated ==
    RunEnded =>
        (\A n \in Closure \cap disabled_plugins :
            error = [kind |-> "RequiredButDisabled", name |-> n])

\* C5, amended: a disabled name that has a descriptor and is enabled or
\* reachable from an enabled name makes resolution fail and load_plugins
\* return None; the error is RequiredButDisabled, naming such a name, when
\* every reachable name has a descriptor and the reachable graph has no
\* cycle (otherwise it is the resolution error the traversal meets first);
\* RequiredButDisabled always names a reachable disabled plugin that has a
\* descriptor.
C5_DisabledAborts ==
    RunEnded =>
        (/\ (DisabledReached # {})
               => (ResolutionFailed /\ returned = "None")
         /\ (DisabledReached # {} /\ MissingPulledIn = {}
                /\ CyclesReached = {})
               => (error.kind = "RequiredButDisabled")
         /\ (error.kind = "RequiredButDisabled")
               => (error.name \in DisabledReached))

\* The scenario {A: [], B: [A]}, enabled {B}, disabled {A}:
\* RequiredButDisabled(A).
C5_Witness ==
    /\ RunEnded
    /\ enabled_plugins = {"B"}
    /\ disabled_plugins = {"A"}
    /\ Catalog = {"A", "B"}
    /\ plugin_info["A"].dependencies = <<>>
    /\ plugin_info["B"].dependencies = <<"A">>
    /\ error = [kind |-> "RequiredButDisabled", name |-> "A"]
    /\ returned = "None"

\* C6: once a resolution error is raised, no activation is ever attempted,
\* no plugin is marked loaded and load_plugins returns None, also when
\* other names were already resolved into the order.
C6_AllOrNothing ==
    ResolutionFailed =>
        (/\ RunEnded
         /\ returned = "None"
         /\ attempts = <<>>
         /\ \A n \in Names : ~IsLoaded(n)
         /\ loaded_plugins = {})

\* A failed resolution that had already put a plugin into the order.
C6_Witness ==
    /\ ResolutionFailed
    /\ loading_order # <<>>
    /\ returned = "None"

\* The activation of n was attempted and did not load it.
FailedActivation(n) == Attempted(n) /\ ~IsLoaded(n)

\* C7: a failed activation does not end the activation loop and unloads
\* nothing: after every attempt the loop goes on, every plugin that was
\* loaded stays loaded, and a run whose resolution succeeded ends with every
\* plugin of the order attempted and a returned set.
C7_FailureDoesNotAbort ==
    /\ [][(pc = "activate" /\ attempts' # attempts)
            => (/\ pc' = "activate"
                /\ returned' = "pending"
                /\ \A n \in Names : IsLoaded(n) => IsLoaded(n)')]_vars
    /\ []((RunEnded /\ error = NoError)
            => (returned = "set" /\ attempts = loading_order))

\* A plugin was loaded, then the activation of a second one failed, then a
\* third one that depends on the second was attempted.
C7_Witness ==
    \E i, j, k \in 1..Len(attempts) :
        /\ i < j /\ j < k
        /\ IsLoaded(attempts[i])
        /\ FailedActivation(attempts[j])
        /\ attempts[j] \in DepsOf(attempts[k])

\* C8: the activation attempts follow the resolved order: at every moment
\* they are a prefix of loading_order, none is made before resolution is
\* over, no name is attempted twice, a plugin is attempted only after each
\* of its dependencies, and the run ends with the whole order attempted.
C8_AttemptsFollowOrder ==
    /\ IsPrefix(attempts, loading_order)
    /\ NoDuplicates(attempts)
    /\ (pc \notin {"activate", "done"}) => (attempts = <<>>)
    /\ (returned = "set") => (attempts = loading_order)
    /\ \A i \in 1..Len(attempts) :
          \A D \in DepsOf(attempts[i]) :
              \E j \in 1..(i - 1) : attempts[j] = D

\* A finished run that attempted three plugins, one depending on another.
C8_Witness ==
    /\ returned = "set"
    /\ Len(attempts) = 3
    /\ \E i \in 1..Len(attempts) : DepsOf(attempts[i]) # {}

C10_OverrideWins ==
    \A n \in Range(env_plugin_list) :
        n \in enabled_plugins /\ n \notin disabled_plugins

\* The policy is built from a configuration that disables a name and an
\* override that names a plugin.
C10_Witness ==
    /\ pc = "catalog"
    /\ env_plugin_list # <<>>
    /\ disabled_plugins # {}

\* C11: while the configuration entries are processed, a name is in exactly
\* one of the two sets, the one its last entry selects, never in both.
C11_LastWriteWins ==
    (pc = "config") =>
        (\A n \in Names :
            /\ (last_flag[n] = "true")
                  => (n \in enabled_plugins /\ n \notin disabled_plugins)
            /\ (last_flag[n] = "false")
                  => (n \in disabled_plugins /\ n \notin enabled_plugins))

\* C12: after a run whose resolution succeeded, every plugin with a
\* descriptor that is not in the order is reported as disabled when it is in
\* the disabled set and as not enabled otherwise, never as "unknown reasons".
C12_ReportClassifies ==
    (returned = "set") =>
        (\A n \in Catalog \ Range(loading_order) :
            not_loaded_report[n] =
                IF n \in disabled_plugins THEN "disabled" ELSE "not_enabled")

\* A finished run that reports one plugin as disabled and one as not
\* enabled.
C12_Witness ==
    /\ returned = "set"
    /\ \E n, m \in Catalog \ Range(loading_order) :
          /\ not_loaded_report[n] = "disabled"
          /\ not_loaded_report[m] = "not_enabled"

\* What the resolution of this run gave.
RunOutcome ==
    IF ResolutionFailed THEN [order |-> <<>>, err |-> error]
    ELSE [order |-> loading_order, err |-> NoError]

ResolutionOver == pc \in {"activate", "done"}

\* C13: the outcome of the resolution (the order, or the error) is the same
\* for every order in which the enabled set can be iterated.
C13_Deterministic ==
    ResolutionOver =>
        (\A list \in Perms(enabled_plugins) :
            ResolveF(list, plugin_info, disabled_plugins) = RunOutcome)

\* The catalog without the descriptors of the names outside S.
Restrict(cat, S) == [n \in (DOMAIN cat) \cap S |-> cat[n]]

\* C14: the outcome of the resolution is the one the traversal gives on the
\* catalog cut down to the names reachable from the enabled set: the
\* descriptors of the other plugins (their dependencies, missing, disabled
\* or cyclic) change neither whether it succeeds nor the order, no such
\* plugin is in the order, and a finished run reports each of them as
\* disabled or not enabled.
C14_UnreachableIgnored ==
    ResolutionOver =>
        (/\ ResolveF(seeds, Restrict(plugin_info, Closure),
                     disabled_plugins) = RunOutcome
         /\ Range(loading_order) \subseteq Closure
         /\ (returned = "set") =>
               (\A n \in Catalog \ Closure :
                   /\ n \notin loaded_plugins
                   /\ not_loaded_report[n] \in {"disabled", "not_enabled"}))

\* The order [A, B] for enabled {B}, B: [A], next to an unreachable C whose
\* dependency is on a cycle, reported as not enabled.
C14_Witness ==
    /\ returned = "set"
    /\ enabled_plugins = {"B"}
    /\ loading_order = <<"A", "B">>
    /\ Catalog = {"A", "B", "C"}
    /\ plugin_info["C"].dependencies = <<"C">>
    /\ not_loaded_report["C"] = "not_enabled"

\* C15: the override step changes the membership of override names only:
\* a name that is not in the override list is in each set after the step
\* exactly if it was before, and the step takes no name out of the enabled
\* set and puts no name into the disabled set.
C15_OverrideFrame ==
    [][(pc = "config" /\ pc' = "catalog")
         => (/\ \A n \in Names \ Range(env_plugin_list') :
                   /\ (n \in enabled_plugins') <=> (n \in enabled_plugins)
                   /\ (n \in disabled_plugins') <=> (n \in disabled_plugins)
             /\ enabled_plugins \subseteq enabled_plugins'
             /\ disabled_plugins' \subseteq disabled_plugins)]_vars

\* The policy after an override, with an enabled and a disabled name that
\* the override does not name.
C15_Witness ==
    /\ pc = "catalog"
    /\ env_plugin_list # <<>>
    /\ enabled_plugins \ Range(env_plugin_list) # {}
    /\ disabled_plugins # {}

\* C16: with an empty enabled set, whatever the catalog and the disabled
\* set, resolution raises nothing and gives the empty order, no activation
\* is attempted, and the run returns the empty set, not None.
C16_NothingRequested ==
    (pc \notin {"config", "catalog"} /\ enabled_plugins = {}) =>
        (/\ error = NoError
         /\ loading_order = <<>>
         /\ attempts = <<>>
         /\ returned \in {"pending", "set"}
         /\ RunEnded => (returned = "set" /\ loaded_plugins = {}))

\* A finished run with nothing enabled, a non-empty catalog and a disabled
\* plugin.
C16_Witness ==
    /\ RunEnded
    /\ enabled_plugins = {}
    /\ Catalog # {}
    /\ disabled_plugins # {}
    /\ returned = "set"

\* C17: every name of loading_order has a descriptor and is not disabled, so
\* the descriptor lookup of the activation loop never fails.
C17_OrderIsActivatable ==
    /\ Range(loading_order) \subseteq Catalog
    /\ Range(loading_order) \cap disabled_plugins = {}
    /\ returned # "KeyError"

\* Every plugin of a resolved order was looked up, next to an enabled name
\* without descriptor and a disabled plugin with one.
C17_Witness ==
    /\ returned = "set"
    /\ attempts # <<>>
    /\ enabled_plugins \ Catalog # {}
    /\ disabled_plugins \cap Catalog # {}

\* C18: a descriptor's is_loaded flag is true exactly for the plugins of
\* the order whose module executed, exposed init_plugin and whose init_plugin
\* returned; it is false for every plugin that is not in the order, and the
\* stored module is set exactly when is_loaded is true.
C18_LoadedFlag ==
    /\ init_returned \subseteq Range(attempts)
    /\ Range(attempts) \subseteq Range(loading_order)
    /\ \A n \in Catalog :
          /\ plugin_info[n].is_loaded <=> (n \in init_returned)
          /\ (plugin_info[n].module # "None") <=> plugin_info[n].is_loaded

\* A finished run with a loaded plugin, a plugin whose activation failed and
\* a plugin that is not in the order.
C18_Witness ==
    /\ returned = "set"
    /\ \E n, m \in Range(loading_order) :
          IsLoaded(n) /\ ~IsLoaded(m)
    /\ Catalog \ Range(loading_order) # {}

\* The names of the current chain of nested visit calls.
StackNames == {stack[k].name : k \in 1..Len(stack)}

\* The loop iterations a visit call of the chain still has to make, and its
\* final step.
RECURSIVE WorkOnStack(_)
WorkOnStack(stk) ==
    IF stk = <<>> THEN 0
    ELSE (Len(plugin_info[Head(stk).name].dependencies) + 2 - Head(stk).i)
         + WorkOnStack(Tail(stk))

\* The same for the plugins visit was not called on yet, entry included.
RECURSIVE WorkUnvisited(_)
WorkUnvisited(S) ==
    IF S = {} THEN 0
    ELSE LET n == CHOOSE x \in S : TRUE IN
         (Len(plugin_info[n].dependencies) + 2) + WorkUnvisited(S \ {n})

\* An upper bound of the steps the resolution has left.
WorkLeft ==
    (Len(seeds) + 1 - seedIdx) + WorkOnStack(stack)
    + WorkUnvisited(Catalog \ (visited \cup StackNames))

\* A step of the resolution.
ResolveStep == SeedStep \/ VisitDep \/ VisitDone

\* C19: the resolution ends, with an order or an error, for every catalog
\* and enabled set: a name is marked in progress only if it is neither done
\* nor in progress, it leaves the marks only by becoming done, a name that
\* is done stays done, every step of the resolution lowers a bound of the
\* work left (which is never negative), and the resolution is never stuck
\* before it is over.
C19_ResolutionTerminates ==
    /\ [][/\ \A n \in temp_marks' \ temp_marks :
                n \notin visited /\ n \notin StackNames
          /\ \A n \in temp_marks \ temp_marks' : n \in visited'
          /\ visited \subseteq visited'
          /\ (pc = "resolve" /\ pc' = "resolve")
                => (WorkLeft' < WorkLeft /\ WorkLeft' >= 0)]_vars
    /\ []((pc = "resolve") => (WorkLeft >= 0 /\ ENABLED ResolveStep))

\* A resolution that ran into a cycle of two plugins and ended.
C19_Witness ==
    /\ RunEnded
    /\ error.kind = "CircularDependency"
    /\ Cardinality(temp_marks) = 2

\* C20: all through the resolution no name is both in progress and done,
\* the names in progress are exactly the names on the chain of nested visit
\* calls (each once), the names done are exactly the names appended to
\* loading_order, and after a resolution that succeeded no name is in
\* progress.
C20_MarksInvariant ==
    /\ temp_marks \cap visited = {}
    /\ visited = Range(loading_order)
    /\ (pc = "resolve") =>
           (/\ temp_marks = StackNames
            /\ Cardinality(StackNames) = Len(stack))
    /\ ResolutionSucceeded => (temp_marks = {})

\* A dependency is being visited below its dependent after another name
\* was done.
C20_Witness ==
    /\ pc = "resolve"
    /\ Len(stack) = 2
    /\ visited # {}
    /\ temp_marks = {stack[1].name, stack[2].name}

====
